---- MODULE Spec2Model ----
(***************************************************************************)
(* Warehouse robot grid world (part3): the WarehouseRobot simulation, the  *)
(* basic and advanced Gymnasium environments, the agents and the Trainer's *)
(* episode loop, train and evaluate.                                       *)
(*                                                                         *)
(* Rewards are kept in tenths so that the collision penalty -0.2 is an     *)
(* integer: 1 is 10, -1 is -10, -0.2 is -2.                                *)
(***************************************************************************)
EXTENDS Integers, Sequences, FiniteSets, Bags, TLC

\* ---------------------------------------------------------------- bounds
MaxRows == 3
MaxCols == 2
MaxBattery == 2
MaxObstacles == 2
\* largest step cap given to the Trainer
MaxStepCap == 3
\* longest episode explored when the Trainer has no cap
MaxSteps == 5
\* how far below zero the battery is followed when steps go on after the end
MaxOverdraw == 1
\* largest num_episodes given to train and evaluate
MaxEpisodes == 2
\* largest integer seed given to reset
MaxSeed == 1
\* most draws followed from one seeded generator
MaxDraws == 2

\* ---------------------------------------------------- program constants
LEFT == 0
DOWN == 1
RIGHT == 2
UP == 3
\* rewards, in tenths
GoalReward == 10
NoReward == 0
CollisionPenalty == 0 - 2
BatteryPenalty == 0 - 10

RobotAction == {LEFT, DOWN, RIGHT, UP}
\* an action value that is not a member of the RobotAction enum
InvalidAction == Cardinality(RobotAction)
None == "None"
\* WarehouseRobot.last_action before any action, '' in the source
NoAction == 0 - 1

VARIABLES
    \* construction parameters
    variant, grid_rows, grid_cols, max_battery, num_obstacles,
    \* WarehouseRobot and environment fields
    robot_pos, target_pos, last_action, obstacles, battery,
    \* position inside AdvancedWarehouseRobotEnv.reset
    pc,
    \* the call made last and the locals and results of the last step
    call, old_pos, new_pos, target_reached,
    obs, reward, terminated, truncated, raised,
    \* Trainer fields and the locals of run_episode
    agent, max_steps_per_episode, rpc, done, total_reward, steps, success,
    action, candidate_actions,
    \* the train argument of run_episode
    train,
    \* the call of train or evaluate in progress, its position, argument,
    \* loop count, locals and returned dictionary
    tcall, tpc, num_episodes, episode, total_rewards, total_steps,
    num_success, stats,
    \* the tuples returned by the run_episode calls of that call, in order
    results,
    \* the seed argument of the latest reset, the generator rng of the
    \* advanced reset and the number of cells drawn from it
    seed, rng, drawn,
    \* what the generators give after seeding, as far as it has been seen:
    \* the target cell of random after random.seed(s), and the cells of
    \* np.random.default_rng(s)
    mt, pcg,
    \* for each seed the target and obstacles of the first reset completed
    \* with it, and whether another reset with it has completed since
    first

cfgVars == <<variant, grid_rows, grid_cols, max_battery, num_obstacles>>
envVars == <<robot_pos, target_pos, last_action, obstacles, battery>>
stepVars == <<old_pos, new_pos, target_reached, reward, terminated, truncated>>
runVars == <<done, total_reward, steps, success, action, candidate_actions>>
trainerVars == <<agent, max_steps_per_episode>>
statVars == <<tcall, tpc, num_episodes, episode, total_rewards, total_steps,
              num_success, stats, results>>
aggVars == <<train, statVars>>
seedVars == <<seed, rng, drawn, mt, pcg, first>>
vars == <<variant, grid_rows, grid_cols, max_battery, num_obstacles,
          robot_pos, target_pos, last_action, obstacles, battery, pc,
          call, old_pos, new_pos, target_reached,
          obs, reward, terminated, truncated, raised,
          agent, max_steps_per_episode, rpc, done, total_reward, steps,
          success, action, candidate_actions, train, tcall, tpc,
          num_episodes, episode, total_rewards, total_steps, num_success,
          stats, results, seed, rng, drawn, mt, pcg, first>>

\* ------------------------------------------------------------- helpers
Range(s) == {s[i] : i \in 1..Len(s)}

\* self.obstacles is a list that is only appended to, measured with len()
\* and searched with "in"; its order is never read, so it is kept as a bag
\* of cells (a cell appended twice would count twice)
NoObstacles == EmptyBag
Cells(obst) == BagToSet(obst)
NumCells(obst) == BagCardinality(obst)
AppendCell(obst, p) == obst (+) SetToBag({p})

\* ------------------------------------------------ WarehouseRobot (model)
\* faulty variant: the row drawn up to grid_rows instead of grid_rows - 1
TargetCells_to_rows == {<<r, c>> : r \in 1..grid_rows, c \in 1..(grid_cols - 1)}

\* random.randint(1, grid_rows - 1), random.randint(1, grid_cols - 1)
TargetCells == {<<r, c>> : r \in 1..(grid_rows - 1), c \in 1..(grid_cols - 1)}

\* faulty variant: no test against the grid edges
perform_action_noclamp(p, a) ==
    IF a = LEFT THEN <<p[1], p[2] - 1>>
    ELSE IF a = RIGHT THEN <<p[1], p[2] + 1>>
    ELSE IF a = UP THEN <<p[1] - 1, p[2]>>
    ELSE IF a = DOWN THEN <<p[1] + 1, p[2]>>
    ELSE p

\* the new robot_pos of perform_action
perform_action(p, a) ==
    IF a = LEFT THEN (IF p[2] > 0 THEN <<p[1], p[2] - 1>> ELSE p)
    ELSE IF a = RIGHT THEN (IF p[2] < grid_cols - 1 THEN <<p[1], p[2] + 1>> ELSE p)
    ELSE IF a = UP THEN (IF p[1] > 0 THEN <<p[1] - 1, p[2]>> ELSE p)
    ELSE IF a = DOWN THEN (IF p[1] < grid_rows - 1 THEN <<p[1] + 1, p[2]>> ELSE p)
    ELSE p

\* ------------------------------------------------- observations (model)
\* faulty variant: the target's coordinates before the robot's
concatenate_target_first(rp, tp) == <<tp[1], tp[2], rp[1], rp[2]>>

\* np.concatenate((robot_pos, target_pos))
concatenate(rp, tp) == <<rp[1], rp[2], tp[1], tp[2]>>

\* faulty variant: the battery field holds the level before the decrement
get_obs_stale_battery(rp, tp, b) == <<rp[1], rp[2], tp[1], tp[2], b + 1>>

\* AdvancedWarehouseRobotEnv._get_obs
get_obs(rp, tp, b) == <<rp[1], rp[2], tp[1], tp[2], b>>

\* ---------------------------------------- WarehouseRobotEnv.step (model)
\* faulty variant: the reward does not depend on target_reached
BasicReward_always(reached) == GoalReward

\* reward = 0; if target_reached: reward = 1
BasicReward(reached) == IF reached THEN GoalReward ELSE NoReward

\* terminated = False; if target_reached: terminated = True
BasicTerminated(reached) == reached

\* -------------------------------- AdvancedWarehouseRobotEnv.step (model)
\* faulty variant: a collision does not restore old_pos
AdvPosition_norevert(old, new, obst) == new

\* if new_pos in self.obstacles: robot_pos = list(old_pos)
AdvPosition(old, new, obst) == IF new \in Cells(obst) THEN old ELSE new

\* faulty variant: the collision penalty assigned after the battery check
AdvReward_collision_last(collided, b, reached) ==
    LET r1 == IF b <= 0 THEN BatteryPenalty ELSE NoReward
        r2 == IF collided THEN CollisionPenalty ELSE r1
    IN  IF reached THEN GoalReward ELSE r2

\* faulty variant: the battery check made after the success check
AdvReward_battery_last(collided, b, reached) ==
    LET r1 == IF collided THEN CollisionPenalty ELSE NoReward
        r2 == IF reached THEN GoalReward ELSE r1
    IN  IF b <= 0 THEN BatteryPenalty ELSE r2

\* the reward left by the three assignments of step, b the battery after
\* the decrement
AdvReward(collided, b, reached) ==
    LET r1 == IF collided THEN CollisionPenalty ELSE NoReward
        r2 == IF b <= 0 THEN BatteryPenalty ELSE r1
    IN  IF reached THEN GoalReward ELSE r2

\* faulty variant: battery exhaustion does not terminate
AdvTerminated_goal_only(b, reached) == reached

\* terminated after the battery check and the success check
AdvTerminated(b, reached) == (b <= 0) \/ reached

\* faulty variant: every step reports truncated
StepTruncated_always == TRUE

\* the truncated element of the tuple step returns, the literal False
StepTruncated == FALSE

\* the record of the last step holds nothing: another call has begun, or
\* the step raised and returned no result
NoStepResult ==
    /\ old_pos' = <<0, 0>>
    /\ new_pos' = <<0, 0>>
    /\ target_reached' = FALSE
    /\ reward' = NoReward
    /\ terminated' = FALSE
    /\ truncated' = FALSE

\* faulty variant: a value outside the enum is ignored without an error
StepRaises_silent(a) ==
    /\ a \notin RobotAction
    /\ raised' = None
    /\ call' = "step"
    /\ NoStepResult
    /\ UNCHANGED <<envVars, obs>>

\* wr.RobotAction(action) raises ValueError for a value outside the enum,
\* before perform_action is called
StepRaises(a) ==
    /\ a \notin RobotAction
    /\ raised' = "ValueError"
    /\ call' = "step"
    /\ NoStepResult
    /\ UNCHANGED <<envVars, obs>>

WarehouseRobotEnv_step(a) ==
    /\ a \in RobotAction
    /\ LET np == perform_action(robot_pos, a)
           reached == (np = target_pos)
       IN  /\ robot_pos' = np
           /\ last_action' = a
           /\ old_pos' = robot_pos
           /\ new_pos' = np
           /\ target_reached' = reached
           /\ reward' = BasicReward(reached)
           /\ terminated' = BasicTerminated(reached)
           /\ truncated' = StepTruncated
           /\ obs' = concatenate(np, target_pos)
    /\ raised' = None
    /\ call' = "step"
    /\ UNCHANGED <<target_pos, obstacles, battery>>

\* faulty variant: a collision removes the obstacle that was hit
AdvancedWarehouseRobotEnv_step_clears(a) ==
    /\ a \in RobotAction
    /\ battery > 0 - MaxOverdraw
    /\ LET np == perform_action(robot_pos, a)
           reached == (np = target_pos)
           collided == (np \in Cells(obstacles))
           rp == AdvPosition(robot_pos, np, obstacles)
           b == battery - 1
       IN  /\ old_pos' = robot_pos
           /\ last_action' = a
           /\ new_pos' = np
           /\ target_reached' = reached
           /\ robot_pos' = rp
           /\ battery' = b
           /\ reward' = AdvReward(collided, b, reached)
           /\ terminated' = AdvTerminated(b, reached)
           /\ truncated' = StepTruncated
           /\ obs' = get_obs(rp, target_pos, b)
           /\ obstacles' = IF collided THEN NoObstacles ELSE obstacles
    /\ raised' = None
    /\ call' = "step"
    /\ UNCHANGED target_pos

AdvancedWarehouseRobotEnv_step(a) ==
    /\ a \in RobotAction
    /\ battery > 0 - MaxOverdraw
    /\ LET np == perform_action(robot_pos, a)
           reached == (np = target_pos)
           collided == (np \in Cells(obstacles))
           rp == AdvPosition(robot_pos, np, obstacles)
           b == battery - 1
       IN  /\ old_pos' = robot_pos
           /\ last_action' = a
           /\ new_pos' = np
           /\ target_reached' = reached
           /\ robot_pos' = rp
           /\ battery' = b
           /\ reward' = AdvReward(collided, b, reached)
           /\ terminated' = AdvTerminated(b, reached)
           /\ truncated' = StepTruncated
           /\ obs' = get_obs(rp, target_pos, b)
    /\ raised' = None
    /\ call' = "step"
    /\ UNCHANGED <<target_pos, obstacles>>

\* env.step(action), dispatched on the class of the environment
step(a) ==
    \/ StepRaises(a)
    \/ variant = "basic" /\ WarehouseRobotEnv_step(a)
    \/ variant = "advanced" /\ AdvancedWarehouseRobotEnv_step(a)

\* ------------------------------------------------------- reset (model)
\* faulty variant: the robot stays where it is
WarehouseRobot_reset_keep_robot ==
    /\ robot_pos' = robot_pos
    /\ \E t \in TargetCells : target_pos' = t
    /\ UNCHANGED last_action

\* WarehouseRobot.reset: robot to [0, 0], a fresh random target
WarehouseRobot_reset ==
    /\ robot_pos' = <<0, 0>>
    /\ \E t \in TargetCells : target_pos' = t
    /\ UNCHANGED last_action

WarehouseRobotEnv_reset ==
    /\ WarehouseRobot_reset
    /\ obs' = concatenate(robot_pos', target_pos')
    /\ raised' = None
    /\ call' = "reset"
    /\ UNCHANGED <<obstacles, battery, pc>>

\* AdvancedWarehouseRobotEnv.reset up to the head of the placement loop
AdvancedReset_begin ==
    /\ WarehouseRobot_reset
    /\ battery' = max_battery
    /\ obstacles' = NoObstacles
    /\ pc' = "placing"
    /\ call' = "reset"
    /\ UNCHANGED <<obs, raised>>

\* faulty variant: the target cell is not excluded
ObstacleRejected_keep_target(p, rp, tp, obst) ==
    p = rp \/ p \in Cells(obst)

\* the three continue tests of the placement loop
ObstacleRejected(p, rp, tp, obst) ==
    p = rp \/ p = tp \/ p \in Cells(obst)

\* one iteration of the while loop: draw a cell pos = (r, c), skip it
\* (continue, nothing changes) or append it
AdvancedReset_place ==
    /\ pc = "placing"
    /\ NumCells(obstacles) < num_obstacles
    /\ \E r \in 0..(grid_rows - 1), c \in 0..(grid_cols - 1) :
          /\ obstacles' = IF ObstacleRejected(<<r, c>>, robot_pos, target_pos, obstacles)
                          THEN obstacles
                          ELSE AppendCell(obstacles, <<r, c>>)
    /\ UNCHANGED <<robot_pos, target_pos, last_action, battery, pc, obs, raised, call>>

\* the loop condition fails: build the observation and return
AdvancedReset_return ==
    /\ pc = "placing"
    /\ NumCells(obstacles) >= num_obstacles
    /\ obs' = get_obs(robot_pos, target_pos, battery)
    /\ raised' = None
    /\ call' = "reset"
    /\ pc' = "idle"
    /\ UNCHANGED envVars

\* ------------------------------------------------ reset(seed) (model)
\* faulty variant: random.seed is not called, the generator is in the state
\* earlier draws left it in
random_seed_skipped(sd) == <<>>

\* random.seed(seed): the generator of the random module freshly seeded
\* with the integer of sd, or from system entropy when sd is <<>>
random_seed(sd) == sd

\* np.random.default_rng(seed): a new generator, seeded likewise
default_rng(sd) == sd

\* the cells the two randint calls of WarehouseRobot.reset can give on
\* generator g: any cell of their ranges, but the one seen before when g
\* was seeded with an integer
randint_pair(g) ==
    IF g = <<>> THEN TargetCells
    ELSE IF mt[g[1]] = <<>> THEN TargetCells ELSE {mt[g[1]]}

\* the cells the k-th pair of rng.integers calls can give on generator g
integers_pair(g, k) ==
    IF g # <<>> /\ k <= Len(pcg[g[1]])
    THEN {pcg[g[1]][k]}
    ELSE {<<r, c>> : r \in 0..(grid_rows - 1), c \in 0..(grid_cols - 1)}

\* WarehouseRobot.reset(seed)
WarehouseRobot_reset_seeded(sd) ==
    /\ robot_pos' = <<0, 0>>
    /\ LET g == random_seed(sd)
       IN  \E t \in randint_pair(g) :
              /\ target_pos' = t
              /\ mt' = IF g = <<>> THEN mt ELSE [mt EXCEPT ![g[1]] = t]
    /\ UNCHANGED last_action

\* the reset with seed sd has completed with target t and obstacles obst
Completed(sd, t, obst) ==
    first' = IF sd = <<>> THEN first
             ELSE IF first[sd[1]] = <<>>
                  THEN [first EXCEPT ![sd[1]] = <<t, obst, FALSE>>]
                  ELSE [first EXCEPT ![sd[1]][3] = TRUE]

\* WarehouseRobotEnv.reset(seed)
WarehouseRobotEnv_reset_seeded(sd) ==
    /\ WarehouseRobot_reset_seeded(sd)
    /\ seed' = sd
    /\ obs' = concatenate(robot_pos', target_pos')
    /\ raised' = None
    /\ call' = "reset"
    /\ Completed(sd, target_pos', obstacles)
    /\ UNCHANGED <<obstacles, battery, pc, rng, drawn, pcg>>

\* AdvancedWarehouseRobotEnv.reset(seed) up to the head of the loop
AdvancedReset_begin_seeded(sd) ==
    /\ WarehouseRobot_reset_seeded(sd)
    /\ seed' = sd
    /\ battery' = max_battery
    /\ rng' = default_rng(sd)
    /\ drawn' = 0
    /\ obstacles' = NoObstacles
    /\ pc' = "placing"
    /\ call' = "reset"
    /\ UNCHANGED <<obs, raised, pcg, first>>

\* one iteration of the while loop on the generator rng; the draws of an
\* unseeded generator are not counted
AdvancedReset_place_seeded ==
    /\ pc = "placing"
    /\ NumCells(obstacles) < num_obstacles
    /\ rng = <<>> \/ drawn < MaxDraws
    /\ \E p \in integers_pair(rng, drawn + 1) :
          /\ obstacles' = IF ObstacleRejected(p, robot_pos, target_pos, obstacles)
                          THEN obstacles
                          ELSE AppendCell(obstacles, p)
          /\ pcg' = IF rng # <<>> /\ drawn + 1 > Len(pcg[rng[1]])
                    THEN [pcg EXCEPT ![rng[1]] = Append(@, p)]
                    ELSE pcg
    /\ drawn' = IF rng = <<>> THEN drawn ELSE drawn + 1
    /\ UNCHANGED <<robot_pos, target_pos, last_action, battery, pc, obs,
                   raised, call, seed, rng, mt, first>>

\* the loop condition fails: build the observation and return
AdvancedReset_return_seeded ==
    /\ AdvancedReset_return
    /\ Completed(seed, target_pos, obstacles)
    /\ UNCHANGED <<seed, rng, drawn, mt, pcg>>

\* env.reset() entered, dispatched on the class of the environment
reset_call ==
    /\ NoStepResult
    /\ \/ variant = "basic" /\ WarehouseRobotEnv_reset
       \/ variant = "advanced" /\ AdvancedReset_begin

\* ------------------------------------------------------ agents (model)
\* gymnasium Discrete(len(RobotAction)).sample()
sample == RobotAction

\* faulty variant: the column test made whatever the rows
candidate_actions_both(o) ==
    (IF o[1] < o[3] THEN <<DOWN>> ELSE IF o[1] > o[3] THEN <<UP>> ELSE <<>>)
    \o (IF o[2] < o[4] THEN <<RIGHT>> ELSE IF o[2] > o[4] THEN <<LEFT>> ELSE <<>>)

\* GreedyAgent.select_action: the candidate list built from
\* robot_row, robot_col, target_row, target_col = o[1], o[2], o[3], o[4]
greedy_candidates(o) ==
    (IF o[1] < o[3] THEN <<DOWN>> ELSE IF o[1] > o[3] THEN <<UP>> ELSE <<>>)
    \o (IF o[1] = o[3]
        THEN (IF o[2] < o[4] THEN <<RIGHT>>
              ELSE IF o[2] > o[4] THEN <<LEFT>> ELSE <<>>)
        ELSE <<>>)

\* the four-name unpacking of the observation raises ValueError unless the
\* observation has exactly four fields
GreedyUnpackFails(o) == Len(o) # 4

\* the actions GreedyAgent.select_action may return: sample() with no
\* candidate, random.choice(candidate_actions) otherwise
GreedyAgent_select_action(o) ==
    IF greedy_candidates(o) = <<>> THEN sample ELSE Range(greedy_candidates(o))

\* RandomAgent.select_action ignores the observation
RandomAgent_select_action(o) == sample

SelectRaises(ag, o) == ag = "GreedyAgent" /\ GreedyUnpackFails(o)

select_action(ag, o) ==
    IF ag = "GreedyAgent" THEN GreedyAgent_select_action(o)
    ELSE RandomAgent_select_action(o)

\* ------------------------------------------------ Trainer.run_episode
\* faulty variant: the step cap is ignored
EpisodeDone_nocap(term, trunc, st, cap) == term \/ trunc

\* done = terminated or truncated; then the optional step cap
\* (cap is <<>> for None and <<n>> for the integer n)
EpisodeDone(term, trunc, st, cap) ==
    (term \/ trunc) \/ (cap # <<>> /\ st >= cap[1])

\* faulty variant: any terminated step counts as success
EpisodeSuccess_any_end(prev, term, rew) == IF term THEN TRUE ELSE prev

\* if terminated and reward > 0: success = True
EpisodeSuccess(prev, term, rew) == IF term /\ rew > 0 THEN TRUE ELSE prev

\* done = False, total_reward = 0.0, steps = 0, success = False
EpisodeLocals ==
    /\ done' = FALSE
    /\ total_reward' = 0
    /\ steps' = 0
    /\ success' = FALSE
    /\ action' = NoAction
    /\ candidate_actions' = <<>>

\* the body of the while loop, once
RunEpisode_body ==
    \E a \in select_action(agent, obs) :
        /\ action' = a
        /\ candidate_actions' = IF agent = "GreedyAgent"
                                THEN greedy_candidates(obs) ELSE <<>>
        /\ step(a)
        /\ total_reward' = total_reward + reward'
        /\ steps' = steps + 1
        /\ success' = EpisodeSuccess(success, terminated', reward')
        /\ done' = EpisodeDone(terminated', truncated', steps',
                               max_steps_per_episode)
        /\ rpc' = IF done' THEN "returned" ELSE "loop"

\* run_episode(train=flag) is entered: env.reset() is called and the locals
\* start from their initial values (reset does not touch them)
run_episode_enter(flag) ==
    /\ pc = "idle"
    /\ train' = flag
    /\ reset_call
    /\ EpisodeLocals
    /\ rpc' = IF variant = "basic" THEN "loop" ELSE "reset"

\* ------------------------------------- Trainer.train, evaluate (model)
\* faulty variant: integer division
Rate_floor(x, n) == IF n > 0 THEN <<x \div n, 1>> ELSE <<0, 1>>

\* x / num_episodes if num_episodes > 0 else 0.0, kept as the fraction
\* <<numerator, denominator>>
Rate(x, n) == IF n > 0 THEN <<x, n>> ELSE <<0, 1>>

\* the train argument each method passes to run_episode
TrainFlag(method) == method = "train"

\* train: total_rewards += total_reward; total_steps += steps;
\* if success: num_success += 1, on the tuple r run_episode returned
TrainTotals(tr, ts, ns, r) ==
    <<tr + r[1], ts + r[3], IF r[2] THEN ns + 1 ELSE ns>>

\* faulty variant: successes are not counted
EvaluateTotals_no_success(tr, ts, ns, r) == <<tr + r[1], ts + r[3], ns>>

\* evaluate: the same three statements
EvaluateTotals(tr, ts, ns, r) ==
    <<tr + r[1], ts + r[3], IF r[2] THEN ns + 1 ELSE ns>>

\* train: the three rates and the stats dictionary
TrainStats(n, tr, ts, ns) ==
    [num_episodes |-> n, success_rate |-> Rate(ns, n),
     avg_reward |-> Rate(tr, n), avg_steps |-> Rate(ts, n)]

\* evaluate: the three rates and the stats dictionary
EvaluateStats(n, tr, ts, ns) ==
    [num_episodes |-> n, success_rate |-> Rate(ns, n),
     avg_reward |-> Rate(tr, n), avg_steps |-> Rate(ts, n)]

\* no dictionary has been returned
NoStats == TrainStats(0 - 1, 0, 0, 0)

\* train(n) or evaluate(n) is entered: the three totals start from zero
train_enter(method, n) ==
    /\ tcall' = method
    /\ num_episodes' = n
    /\ episode' = 0
    /\ total_rewards' = 0
    /\ total_steps' = 0
    /\ num_success' = 0
    /\ stats' = NoStats
    /\ results' = <<>>
    /\ tpc' = "loop"

\* for episode in range(num_episodes): the next run_episode call
train_iterate ==
    /\ tpc = "loop"
    /\ episode < num_episodes
    /\ run_episode_enter(TrainFlag(tcall))
    /\ episode' = episode + 1
    /\ tpc' = "episode"
    /\ UNCHANGED <<tcall, num_episodes, total_rewards, total_steps,
                   num_success, stats, results>>

\* run_episode has returned (total_reward, success, steps): the totals of
\* the method take it in
train_collect ==
    /\ tpc = "episode"
    /\ rpc = "returned"
    /\ LET r == <<total_reward, success, steps>>
           t == IF tcall = "train"
                THEN TrainTotals(total_rewards, total_steps, num_success, r)
                ELSE EvaluateTotals(total_rewards, total_steps, num_success, r)
       IN  /\ total_rewards' = t[1]
           /\ total_steps' = t[2]
           /\ num_success' = t[3]
           /\ results' = Append(results, r)
    /\ tpc' = "loop"
    /\ UNCHANGED <<tcall, num_episodes, episode, stats>>

\* the loop is over: the rates are computed and the dictionary returned
train_return ==
    /\ tpc = "loop"
    /\ episode >= num_episodes
    /\ stats' = IF tcall = "train"
                THEN TrainStats(num_episodes, total_rewards, total_steps,
                                num_success)
                ELSE EvaluateStats(num_episodes, total_rewards, total_steps,
                                   num_success)
    /\ tpc' = "returned"
    /\ UNCHANGED <<tcall, num_episodes, episode, total_rewards, total_steps,
                   num_success, results>>

\* -------------------------------------------------------------- states
\* an environment as its constructor leaves it, with up to most obstacles
\* asked for
InitEnvUpTo(most) ==
    /\ variant \in {"basic", "advanced"}
    /\ grid_rows \in 2..MaxRows
    /\ grid_cols \in 2..MaxCols
    /\ max_battery \in (IF variant = "advanced" THEN 1..MaxBattery ELSE {0})
    /\ num_obstacles \in (IF variant = "advanced" THEN 0..most ELSE {0})
    /\ robot_pos = <<0, 0>>
    /\ target_pos \in TargetCells
    /\ last_action = NoAction
    /\ obstacles = NoObstacles
    /\ battery = max_battery
    /\ pc = "idle"
    /\ call = "init"
    /\ old_pos = <<0, 0>>
    /\ new_pos = <<0, 0>>
    /\ target_reached = FALSE
    /\ obs = <<>>
    /\ reward = NoReward
    /\ terminated = FALSE
    /\ truncated = FALSE
    /\ raised = None

InitEnv == InitEnvUpTo(MaxObstacles)

InitLocals ==
    /\ rpc = "none"
    /\ done = FALSE
    /\ total_reward = 0
    /\ steps = 0
    /\ success = FALSE
    /\ action = NoAction
    /\ candidate_actions = <<>>
    /\ train = FALSE

\* the integer seeds; the seed argument is <<>> for None, <<s>> for s
Seeds == 1..MaxSeed
SeedArgs == {<<>>} \cup {<<s>> : s \in Seeds}

\* no reset has been given a seed
InitSeeds ==
    /\ seed = <<>>
    /\ rng = <<>>
    /\ drawn = 0
    /\ mt = [s \in Seeds |-> <<>>]
    /\ pcg = [s \in Seeds |-> <<>>]
    /\ first = [s \in Seeds |-> <<>>]

\* neither train nor evaluate has been called
InitStats ==
    /\ tcall = "none"
    /\ tpc = "none"
    /\ num_episodes = 0
    /\ episode = 0
    /\ total_rewards = 0
    /\ total_steps = 0
    /\ num_success = 0
    /\ stats = NoStats
    /\ results = <<>>
    /\ InitSeeds

\* the environment on its own, no Trainer
Init ==
    /\ InitEnv
    /\ agent = "RandomAgent"
    /\ max_steps_per_episode = <<>>
    /\ InitLocals
    /\ InitStats

\* a Trainer built on the environment with an agent and a step cap
InitRun ==
    /\ InitEnv
    /\ agent \in {"RandomAgent", "GreedyAgent"}
    /\ max_steps_per_episode \in {<<>>} \cup {<<n>> : n \in (0 - 1)..MaxStepCap}
    /\ InitLocals
    /\ InitStats

\* ------------------------------------------------------------- actions
\* env.reset() called directly
Reset ==
    /\ rpc = "none"
    /\ pc = "idle"
    /\ reset_call
    /\ UNCHANGED <<cfgVars, seedVars, trainerVars, rpc, runVars, aggVars>>

\* one iteration of the obstacle placement loop of a reset in progress
Place ==
    /\ AdvancedReset_place
    /\ UNCHANGED <<cfgVars, seedVars, stepVars, trainerVars, rpc, runVars, aggVars>>

\* a directly called advanced reset returns
ResetReturn ==
    /\ rpc = "none"
    /\ AdvancedReset_return
    /\ UNCHANGED <<cfgVars, seedVars, stepVars, trainerVars, rpc, runVars, aggVars>>

\* env.step(action) called directly, with any action value; action is the
\* caller's variable holding the value passed
Step ==
    /\ rpc = "none"
    /\ pc = "idle"
    /\ \E a \in RobotAction \cup {InvalidAction} : step(a) /\ action' = a
    /\ UNCHANGED <<cfgVars, seedVars, pc, trainerVars, rpc, aggVars,
                   done, total_reward, steps, success, candidate_actions>>

\* run_episode is called with the default train = False: env.reset() is
\* entered; the locals of the call start from their initial values (reset
\* does not touch them)
RunEpisode ==
    /\ rpc \in {"none", "returned"}
    /\ run_episode_enter(FALSE)
    /\ UNCHANGED <<cfgVars, seedVars, trainerVars, statVars>>

\* the advanced reset of run_episode returns; agent.reset() does nothing
RunReset ==
    /\ rpc = "reset"
    /\ AdvancedReset_return
    /\ rpc' = "loop"
    /\ UNCHANGED <<cfgVars, seedVars, stepVars, trainerVars, runVars, aggVars>>

\* one iteration of the while loop of run_episode
RunStep ==
    /\ rpc = "loop"
    /\ steps < MaxSteps
    /\ ~SelectRaises(agent, obs)
    /\ RunEpisode_body
    /\ UNCHANGED <<cfgVars, seedVars, pc, trainerVars, aggVars>>

\* agent.select_action raises and run_episode is left by the exception
RunRaise ==
    /\ rpc = "loop"
    /\ SelectRaises(agent, obs)
    /\ raised' = "ValueError"
    /\ rpc' = "raised"
    /\ call' = "select_action"
    /\ UNCHANGED <<cfgVars, seedVars, envVars, pc, stepVars, obs, trainerVars, runVars, aggVars>>

Next == Reset \/ Place \/ ResetReturn \/ Step

Spec == Init /\ [][Next]_vars

\* ------------------------------------- resets alone, under fair draws
\* an environment that may be asked for one obstacle more than the bound
InitPlacement ==
    /\ InitEnvUpTo(MaxObstacles + 1)
    /\ agent = "RandomAgent"
    /\ max_steps_per_episode = <<>>
    /\ InitLocals
    /\ InitStats

NextPlacement == Reset \/ Place \/ ResetReturn

\* the generator is fair: while some cell can still be appended, a draw
\* that is appended comes; and the return statement is reached once the
\* loop condition fails
SpecPlacement ==
    /\ InitPlacement
    /\ [][NextPlacement]_vars
    /\ WF_vars(Place)
    /\ WF_vars(ResetReturn)

\* --------------------------------------------- resets with a seed
\* an environment on the 3x2 grid, which has two cells for the target, with
\* at most one obstacle and a battery of one step
InitSeed ==
    /\ Init
    /\ grid_rows = 3
    /\ grid_cols = 2
    /\ max_battery <= 1
    /\ num_obstacles <= 1

\* env.reset(seed=sd) called directly, with None or an integer
SeededReset ==
    /\ rpc = "none"
    /\ pc = "idle"
    /\ NoStepResult
    /\ \E sd \in SeedArgs :
          \/ variant = "basic" /\ WarehouseRobotEnv_reset_seeded(sd)
          \/ variant = "advanced" /\ AdvancedReset_begin_seeded(sd)
    /\ UNCHANGED <<cfgVars, trainerVars, rpc, runVars, aggVars>>

SeededPlace ==
    /\ AdvancedReset_place_seeded
    /\ UNCHANGED <<cfgVars, stepVars, trainerVars, rpc, runVars, aggVars>>

SeededReturn ==
    /\ rpc = "none"
    /\ AdvancedReset_return_seeded
    /\ UNCHANGED <<cfgVars, stepVars, trainerVars, rpc, runVars, aggVars>>

\* env.step(action) called directly with a move away from the start cell,
\* while the battery is not empty
SeededStep ==
    /\ variant = "advanced" => battery > 0
    /\ Step
    /\ action' \in {DOWN, RIGHT}

NextSeed == SeededReset \/ SeededPlace \/ SeededReturn \/ SeededStep

SpecSeed == InitSeed /\ [][NextSeed]_vars

NextRun == RunEpisode \/ Place \/ RunReset \/ RunStep \/ RunRaise

SpecRun == InitRun /\ [][NextRun]_vars

\* ------------------------------------------- train and evaluate (model)
\* a Trainer on the smallest grid; the statistics do not read the grid
InitTrain ==
    /\ InitRun
    /\ grid_rows = 2
    /\ grid_cols = 2
    /\ num_obstacles <= 1
    /\ max_steps_per_episode \in {<<>>, <<MaxStepCap>>}

\* trainer.train(n) or trainer.evaluate(n) is called, once
TrainCall ==
    /\ tpc = "none"
    /\ \E method \in {"train", "evaluate"}, n \in 0..MaxEpisodes :
          train_enter(method, n)
    /\ UNCHANGED <<cfgVars, seedVars, envVars, pc, call, stepVars, obs, raised,
                   trainerVars, rpc, runVars, train>>

\* the loop of train or evaluate calls run_episode
TrainEpisode ==
    /\ train_iterate
    /\ UNCHANGED <<cfgVars, seedVars, trainerVars>>

\* the call of run_episode has returned
TrainCollect ==
    /\ train_collect
    /\ UNCHANGED <<cfgVars, seedVars, envVars, pc, call, stepVars, obs, raised,
                   trainerVars, rpc, runVars, train>>

\* train or evaluate returns its statistics
TrainReturn ==
    /\ train_return
    /\ UNCHANGED <<cfgVars, seedVars, envVars, pc, call, stepVars, obs, raised,
                   trainerVars, rpc, runVars, train>>

NextTrain ==
    \/ TrainCall \/ TrainEpisode \/ Place \/ RunReset \/ RunStep \/ RunRaise
    \/ TrainCollect \/ TrainReturn

SpecTrain == InitTrain /\ [][NextTrain]_vars

\* ------------------------- the agent driving the basic environment (model)
\* every four-field observation inside the bounds of the observation space
Observations4 ==
    {<<rr, rc, tr, tc>> : rr \in 0..(grid_rows - 1), rc \in 0..(grid_cols - 1),
                          tr \in 0..(grid_rows - 1), tc \in 0..(grid_cols - 1)}

\* an agent handed the observation of a basic environment whose robot and
\* target are anywhere in the grid
InitAgent ==
    /\ variant = "basic"
    /\ grid_rows \in 2..MaxRows
    /\ grid_cols \in 2..MaxCols
    /\ max_battery = 0
    /\ num_obstacles = 0
    /\ obs \in Observations4
    /\ robot_pos = <<obs[1], obs[2]>>
    /\ target_pos = <<obs[3], obs[4]>>
    /\ last_action = NoAction
    /\ obstacles = NoObstacles
    /\ battery = 0
    /\ pc = "idle"
    /\ call = "init"
    /\ old_pos = <<0, 0>>
    /\ new_pos = <<0, 0>>
    /\ target_reached = FALSE
    /\ reward = NoReward
    /\ terminated = FALSE
    /\ truncated = FALSE
    /\ raised = None
    /\ agent \in {"RandomAgent", "GreedyAgent"}
    /\ max_steps_per_episode = <<>>
    /\ InitLocals
    /\ InitStats

\* agent.select_action(obs) on the latest observation, while the last step
\* did not end the episode
Select ==
    /\ call \in {"init", "step"}
    /\ ~terminated
    /\ ~SelectRaises(agent, obs)
    /\ \E a \in select_action(agent, obs) : action' = a
    /\ candidate_actions' = IF agent = "GreedyAgent"
                            THEN greedy_candidates(obs) ELSE <<>>
    /\ call' = "select_action"
    /\ UNCHANGED <<cfgVars, seedVars, envVars, pc, stepVars, obs, raised, aggVars,
                   trainerVars, rpc, done, total_reward, steps, success>>

\* env.step(action) with the action the agent selected
Apply ==
    /\ call = "select_action"
    /\ step(action)
    /\ UNCHANGED <<cfgVars, seedVars, pc, trainerVars, rpc, runVars, aggVars>>

NextAgent == Select \/ Apply

SpecAgent == InitAgent /\ [][NextAgent]_vars

\* ============================================================== claims
InGrid(p) == p[1] >= 0 /\ p[1] < grid_rows /\ p[2] >= 0 /\ p[2] < grid_cols

\* the last call was a step that returned a result
Stepped == call = "step" /\ raised = None

\* C1: basic variant: a step returns reward 1 and terminated = true exactly
\* when the robot is on the target after the move, reward 0 and
\* terminated = false in every other case.
C1_BasicGoalIff ==
    (variant = "basic" /\ Stepped) =>
        IF robot_pos = target_pos
        THEN reward = GoalReward /\ terminated
        ELSE reward = NoReward /\ ~terminated

C1_Witness ==
    /\ variant = "basic" /\ Stepped
    /\ robot_pos = target_pos /\ reward = GoalReward /\ terminated

\* C2: advanced variant: a step whose tentative position is an obstacle
\* leaves the robot on its pre-step cell with reward -0.2 (-1 when the
\* battery runs out on that step), and the robot is never on an obstacle.
C2_CollisionReverts ==
    /\ robot_pos \notin Cells(obstacles)
    /\ (variant = "advanced" /\ Stepped /\ new_pos \in Cells(obstacles)) =>
          /\ robot_pos = old_pos
          /\ reward = IF battery <= 0 THEN BatteryPenalty ELSE CollisionPenalty

C2_Witness ==
    /\ variant = "advanced" /\ Stepped
    /\ new_pos \in Cells(obstacles) /\ new_pos # old_pos
    /\ robot_pos = old_pos /\ reward = CollisionPenalty

\* C3: advanced variant: every step that returns lowers the battery by
\* exactly 1, and a step that leaves the battery at or below 0 without
\* reaching the goal returns terminated = true and reward -1, also when it
\* collided.
C3_BatteryStep ==
    (variant = "advanced" /\ pc = "idle" /\ pc' = "idle"
        /\ call' = "step" /\ raised' = None) => battery' = battery - 1

C3_BatteryExhausted ==
    (variant = "advanced" /\ Stepped /\ battery <= 0 /\ ~target_reached) =>
        (terminated /\ reward = BatteryPenalty)

C3_Battery == [][C3_BatteryStep]_vars /\ []C3_BatteryExhausted

C3_Witness ==
    /\ variant = "advanced" /\ Stepped
    /\ battery = 0 /\ ~target_reached
    /\ new_pos \in Cells(obstacles)
    /\ terminated /\ reward = BatteryPenalty

\* C4: advanced variant: a step that reaches the target while the battery
\* reaches 0 returns reward 1 and terminated = true, and run_episode
\* returns success = true for that episode.
C4_GoalBeatsBattery ==
    (variant = "advanced" /\ Stepped /\ target_reached /\ battery = 0) =>
        /\ reward = GoalReward /\ terminated
        /\ rpc = "returned" /\ success

C4_Witness ==
    /\ variant = "advanced" /\ Stepped /\ target_reached /\ battery = 0
    /\ rpc = "returned" /\ success

\* C5: advanced variant: whenever the robot stands on the target after a
\* step, reverted by a collision or not, that step returned reward 1 and
\* terminated = true.
C5_OnTargetIsGoal ==
    (variant = "advanced" /\ Stepped /\ robot_pos = target_pos) =>
        (reward = GoalReward /\ terminated)

\* C6: perform_action moves one cell in the direction of the action when
\* the destination is inside the grid, and leaves the position unchanged,
\* also when repeated, when the action points past an edge.
C6_Movement ==
    Stepped =>
        LET r == old_pos[1]
            c == old_pos[2]
            dest == CASE last_action = LEFT -> <<r, c - 1>>
                      [] last_action = RIGHT -> <<r, c + 1>>
                      [] last_action = UP -> <<r - 1, c>>
                      [] last_action = DOWN -> <<r + 1, c>>
        IN  /\ last_action \in RobotAction
            /\ InGrid(dest) => new_pos = dest
            /\ ~InGrid(dest) =>
                  /\ new_pos = old_pos
                  /\ perform_action(new_pos, last_action) = new_pos

C6_Witness ==
    /\ Stepped /\ last_action = DOWN
    /\ old_pos[1] = grid_rows - 1 /\ new_pos = old_pos

\* C7: in both variants robot_pos and target_pos are inside the grid in
\* every state reached by resets and steps.
C7_InGrid == InGrid(robot_pos) /\ InGrid(target_pos)

C7_Witness ==
    /\ Stepped /\ last_action = RIGHT
    /\ old_pos = <<grid_rows - 1, grid_cols - 1>>
    /\ robot_pos = old_pos /\ target_pos = robot_pos

\* C8: run_episode goes on while the last step reported neither terminated
\* nor truncated and the step count is below the cap, ends otherwise, and
\* returns success = true exactly when its final step had terminated = true
\* with a positive reward.
C8_EpisodeEnd ==
    LET capped == max_steps_per_episode # <<>>
                    /\ steps >= max_steps_per_episode[1]
    IN  /\ rpc = "returned" =>
              /\ steps >= 1 /\ Stepped
              /\ terminated \/ truncated \/ capped
              /\ success <=> (terminated /\ reward > 0)
        /\ (rpc = "loop" /\ steps >= 1) =>
              /\ Stepped
              /\ ~terminated /\ ~truncated /\ ~capped
              /\ ~success

C8_Witness ==
    /\ rpc = "returned" /\ success /\ terminated
    /\ max_steps_per_episode = <<steps>> /\ steps = 2

\* C9: GreedyAgent.select_action takes the five-field observation of the
\* advanced variant, so an episode of GreedyAgent on the advanced
\* environment is never left by an exception.
C9_GreedyOnAdvanced ==
    (agent = "GreedyAgent" /\ variant = "advanced") => rpc # "raised"

\* C10: on a four-field observation GreedyAgent returns DOWN above the
\* target row, UP below it, RIGHT or LEFT on the target row, never holds
\* two candidates, and on the target returns some action of the action set.
C10_GreedyRule ==
    (agent = "GreedyAgent" /\ call = "select_action") =>
        /\ obs[1] < obs[3] => action = DOWN
        /\ obs[1] > obs[3] => action = UP
        /\ (obs[1] = obs[3] /\ obs[2] < obs[4]) => action = RIGHT
        /\ (obs[1] = obs[3] /\ obs[2] > obs[4]) => action = LEFT
        /\ Len(candidate_actions) <= 1
        /\ (obs[1] = obs[3] /\ obs[2] = obs[4]) =>
              (candidate_actions = <<>> /\ action \in RobotAction)

C10_Witness ==
    /\ agent = "GreedyAgent" /\ call = "select_action"
    /\ obs[1] > obs[3] /\ obs[2] > obs[4] /\ action = UP

\* |r1 - r2| + |c1 - c2|
Manhattan(p, q) ==
    (IF p[1] >= q[1] THEN p[1] - q[1] ELSE q[1] - p[1])
        + (IF p[2] >= q[2] THEN p[2] - q[2] ELSE q[2] - p[2])

\* C11: every step taken with the action GreedyAgent selected from a cell
\* that is not the target lowers the Manhattan distance between robot and
\* target by exactly 1, so the distance never stays equal or grows before
\* the target is reached (basic environment).
C11_DistanceStep ==
    (agent = "GreedyAgent" /\ call = "select_action" /\ call' = "step"
        /\ robot_pos # target_pos) =>
        /\ raised' = None
        /\ Manhattan(robot_pos', target_pos')
              = Manhattan(robot_pos, target_pos) - 1

C11_GreedyDescent == [][C11_DistanceStep]_vars

C11_Witness ==
    /\ agent = "GreedyAgent" /\ Stepped
    /\ last_action = LEFT /\ old_pos # robot_pos
    /\ robot_pos = target_pos /\ terminated

\* C12: basic variant with GreedyAgent: from (0,0) the k-th action of
\* run_episode is DOWN for k <= tr and RIGHT after that, for the target
\* (tr, tc) of the reset; with no cap or a cap of at least tr + tc the
\* episode returns steps = tr + tc, total_reward = 1 and success = true.
C12_GreedyPath ==
    (variant = "basic" /\ agent = "GreedyAgent"
        /\ rpc \in {"loop", "returned"}) =>
        LET tr == target_pos[1]
            tc == target_pos[2]
            capOK == max_steps_per_episode = <<>>
                        \/ max_steps_per_episode[1] >= tr + tc
        IN  /\ steps <= tr + tc
            /\ robot_pos = IF steps <= tr THEN <<steps, 0>>
                                          ELSE <<tr, steps - tr>>
            /\ steps >= 1 => action = IF steps <= tr THEN DOWN ELSE RIGHT
            /\ (rpc = "loop" /\ capOK) => steps < tr + tc
            /\ (rpc = "returned" /\ capOK) =>
                  /\ steps = tr + tc
                  /\ total_reward = GoalReward
                  /\ success

C12_Witness ==
    /\ variant = "basic" /\ agent = "GreedyAgent" /\ rpc = "returned"
    /\ target_pos = <<2, 1>> /\ max_steps_per_episode = <<3>>
    /\ steps = 3 /\ action = RIGHT
    /\ total_reward = GoalReward /\ success

\* C13: advanced variant with max_battery >= 1 and any agent: an episode of
\* run_episode never has more than max_battery steps, and an episode that
\* is over without having reached the target, with no cap below
\* max_battery, has returned after exactly max_battery steps with
\* terminated = true and reward -1 on its last step and success = false.
C13_BatteryEndsEpisode ==
    (variant = "advanced" /\ rpc \in {"loop", "returned", "raised"}) =>
        LET capSmaller == max_steps_per_episode # <<>>
                            /\ max_steps_per_episode[1] < max_battery
        IN  /\ steps <= max_battery
            /\ rpc = "loop" => steps < max_battery
            /\ (rpc # "loop" /\ ~capSmaller /\ ~target_reached) =>
                  /\ rpc = "returned"
                  /\ steps = max_battery
                  /\ terminated /\ reward = BatteryPenalty
                  /\ ~success

RECURSIVE SumField(_, _)
\* the sum of element i of the tuples of rs
SumField(rs, i) == IF rs = <<>> THEN 0 ELSE rs[1][i] + SumField(Tail(rs), i)

RECURSIVE Successes(_)
\* the number of tuples of rs whose success element is true
Successes(rs) ==
    IF rs = <<>> THEN 0
    ELSE (IF rs[1][2] THEN 1 ELSE 0) + Successes(Tail(rs))

\* the fractions f and g are the same number
SameRate(f, g) == f[2] # 0 /\ g[2] # 0 /\ f[1] * g[2] = g[1] * f[2]

RECURSIVE FoldTrain(_)
\* the totals train holds after the tuples of rs
FoldTrain(rs) ==
    IF rs = <<>> THEN <<0, 0, 0>>
    ELSE LET t == FoldTrain(SubSeq(rs, 1, Len(rs) - 1))
         IN  TrainTotals(t[1], t[2], t[3], rs[Len(rs)])

RECURSIVE FoldEvaluate(_)
\* the totals evaluate holds after the tuples of rs
FoldEvaluate(rs) ==
    IF rs = <<>> THEN <<0, 0, 0>>
    ELSE LET t == FoldEvaluate(SubSeq(rs, 1, Len(rs) - 1))
         IN  EvaluateTotals(t[1], t[2], t[3], rs[Len(rs)])

\* C15: train and evaluate differ only in the train flag they pass to
\* run_episode: on the tuples returned by the episodes of a call, the
\* statements of train and the statements of evaluate give the same totals
\* and the same statistics, which are the ones the call holds and returns.
C15_TrainEvaluateAgree ==
    tcall # "none" =>
        LET a == FoldTrain(results)
            b == FoldEvaluate(results)
        IN  /\ a = b
            /\ <<total_rewards, total_steps, num_success>> = a
            /\ TrainStats(num_episodes, a[1], a[2], a[3])
                  = EvaluateStats(num_episodes, b[1], b[2], b[3])
            /\ tpc = "returned" =>
                  stats = TrainStats(num_episodes, a[1], a[2], a[3])
            /\ tpc = "episode" => (train <=> tcall = "train")

C15_Witness ==
    /\ tcall = "evaluate" /\ tpc = "returned" /\ ~train
    /\ num_episodes = 2 /\ Len(results) = 2
    /\ num_success = 1 /\ results[1][3] # results[2][3]

\* C16: after every reset of either variant the robot is on (0,0), the
\* target has its row in 1..grid_rows-1 and its column in 1..grid_cols-1,
\* so it is never the robot's cell, and in the advanced variant the
\* battery is max_battery.
C16_AfterReset ==
    call = "reset" =>
        /\ robot_pos = <<0, 0>>
        /\ target_pos[1] \in 1..(grid_rows - 1)
        /\ target_pos[2] \in 1..(grid_cols - 1)
        /\ target_pos # robot_pos
        /\ variant = "advanced" => battery = max_battery

C16_Witness ==
    /\ variant = "advanced" /\ call = "reset" /\ pc = "idle"
    /\ last_action = DOWN
    /\ robot_pos = <<0, 0>> /\ battery = max_battery

\* C17: advanced variant: when a reset has returned, obstacles holds exactly
\* num_obstacles cells, no cell twice, every cell inside the grid, none the
\* cell (0,0) and none the target of that reset; a reset starts from an
\* empty obstacle list.
C17_AfterReset ==
    (variant = "advanced" /\ call = "reset" /\ pc = "idle") =>
        /\ NumCells(obstacles) = num_obstacles
        /\ Cardinality(Cells(obstacles)) = num_obstacles
        /\ \A c \in Cells(obstacles) :
              /\ CopiesIn(c, obstacles) = 1
              /\ InGrid(c)
              /\ c # <<0, 0>>
              /\ c # target_pos

C17_Fresh ==
    (variant = "advanced" /\ pc = "idle" /\ pc' = "placing") =>
        obstacles' = NoObstacles

C17_Obstacles == []C17_AfterReset /\ [][C17_Fresh]_vars

C17_Witness ==
    /\ variant = "advanced" /\ call = "reset" /\ pc = "idle"
    /\ last_action # NoAction
    /\ num_obstacles = 2 /\ Cardinality(Cells(obstacles)) = 2

\* C18: a step called with a value outside the RobotAction enum raises an
\* error, in both variants, and leaves robot_pos, target_pos, obstacles and
\* battery as they were before the call.
C18_FailFast ==
    (call' = "step" /\ action' \notin RobotAction) =>
        /\ raised' = "ValueError"
        /\ UNCHANGED <<robot_pos, target_pos, obstacles, battery>>

C18_InvalidAction == [][C18_FailFast]_vars

C18_Witness ==
    /\ variant = "advanced" /\ call = "step" /\ action = InvalidAction
    /\ raised = "ValueError"
    /\ robot_pos # <<0, 0>> /\ battery < max_battery
    /\ NumCells(obstacles) > 0

\* C19: no step of either variant returns truncated = true; when
\* run_episode returns because the step count reached the cap, its last
\* step reported truncated = false, and terminated = true only if that step
\* reached the goal or emptied the battery.
C19_NeverTruncated ==
    LET capped == max_steps_per_episode # <<>>
                    /\ steps >= max_steps_per_episode[1]
    IN  /\ ~truncated
        /\ (rpc = "returned" /\ capped) =>
              /\ Stepped /\ ~truncated
              /\ terminated =>
                    (target_reached \/ (variant = "advanced" /\ battery <= 0))

C19_Witness ==
    /\ rpc = "returned" /\ Stepped /\ ~terminated /\ ~truncated
    /\ max_steps_per_episode = <<steps>> /\ steps = 2

\* C20: in every episode of train or evaluate, when the loop of run_episode
\* is entered env.reset() has returned and no select_action or step has
\* been made since, the robot is on (0,0) and, in the advanced variant, the
\* battery is max_battery, whatever state the episode before ended in.
C20_EpisodeStart ==
    /\ (tpc = "episode" /\ rpc = "reset") => (call = "reset" /\ steps = 0)
    /\ (tpc = "episode" /\ rpc = "loop" /\ steps = 0) =>
          /\ call = "reset" /\ pc = "idle" /\ raised = None
          /\ robot_pos = <<0, 0>>
          /\ action = NoAction
          /\ variant = "advanced" => battery = max_battery

C20_Witness ==
    /\ tpc = "episode" /\ rpc = "loop" /\ steps = 0
    /\ episode = 2 /\ results[1][3] = 2
    /\ variant = "advanced" /\ max_battery = 2
    /\ last_action = DOWN
    /\ robot_pos = <<0, 0>> /\ battery = max_battery

\* C21: a reset given an integer seed ends with the target and, in the
\* advanced variant, the obstacles of the first reset that was given that
\* seed on this environment, whatever resets and steps came between.
C21_SeededReset ==
    (call = "reset" /\ pc = "idle" /\ seed # <<>>) =>
        /\ first[seed[1]] # <<>>
        /\ first[seed[1]][1] = target_pos
        /\ first[seed[1]][2] = obstacles

C21_Witness ==
    /\ variant = "advanced" /\ call = "reset" /\ pc = "idle"
    /\ seed = <<1>> /\ first[1] # <<>> /\ first[1][3]
    /\ num_obstacles = 1 /\ drawn >= 2
    /\ last_action # NoAction

\* C22: advanced variant: a step returns a reward among 0, -0.2, -1 and 1,
\* and terminated = true exactly when the reward is 1 or -1; a step with
\* reward -0.2 leaves the robot on its pre-step cell with terminated =
\* false; a step with reward 1 leaves the robot on the target.
C22_RewardTerminated ==
    (variant = "advanced" /\ Stepped) =>
        /\ reward \in {NoReward, CollisionPenalty, BatteryPenalty, GoalReward}
        /\ terminated <=> reward \in {GoalReward, BatteryPenalty}
        /\ reward = CollisionPenalty => (robot_pos = old_pos /\ ~terminated)
        /\ reward = GoalReward => robot_pos = target_pos

C22_Witness ==
    /\ variant = "advanced" /\ Stepped
    /\ reward = BatteryPenalty /\ terminated
    /\ new_pos \in Cells(obstacles) /\ battery = 0

C25_StepFrame ==
    /\ call' = "step" =>
          UNCHANGED <<target_pos, obstacles, grid_rows, grid_cols,
                      max_battery, num_obstacles, variant>>
    /\ (call' = "step" /\ variant = "basic") => UNCHANGED battery
    /\ (target_pos' # target_pos \/ obstacles' # obstacles) => call' = "reset"

C25_Frame == [][C25_StepFrame]_vars

C25_Witness ==
    /\ variant = "advanced" /\ Stepped
    /\ new_pos \in Cells(obstacles) /\ new_pos # old_pos
    /\ battery = 0 /\ NumCells(obstacles) = 2

\* C26: advanced variant with max_battery >= 1: in an episode of
\* run_episode the battery field of the observation returned by reset or
\* by the latest step is max_battery minus the number of steps made, and
\* lies between 0 and max_battery.
C26_BatteryField ==
    (variant = "advanced" /\ rpc \in {"loop", "returned", "raised"}) =>
        /\ Len(obs) = 5
        /\ obs[5] = battery
        /\ obs[5] = max_battery - steps
        /\ obs[5] >= 0 /\ obs[5] <= max_battery

C26_Witness ==
    /\ variant = "advanced" /\ rpc = "returned" /\ Stepped
    /\ max_battery = 2 /\ steps = 2 /\ obs[5] = 0
    /\ max_steps_per_episode = <<>>

\* the cells of the grid other than the robot's start and the target
FreeCells == grid_rows * grid_cols - 2

\* C24: the placement loop of the advanced reset is left only when
\* num_obstacles <= grid_rows * grid_cols - 2; with more obstacles asked
\* for the loop is never left and reset does not return; within that bound
\* a reset that has entered the loop returns, under fair draws.
C24_Bound ==
    (variant = "advanced" /\ call = "reset" /\ pc = "idle") =>
        num_obstacles <= FreeCells

C24_Stuck ==
    (variant = "advanced" /\ pc = "placing" /\ num_obstacles > FreeCells) =>
        pc' = "placing"

C24_Completes ==
    (variant = "advanced" /\ pc = "placing" /\ num_obstacles <= FreeCells)
        ~> (pc = "idle" /\ call = "reset")

C24_PlacementLoop == []C24_Bound /\ [][C24_Stuck]_vars /\ C24_Completes

C24_Witness ==
    /\ variant = "advanced" /\ pc = "placing"
    /\ num_obstacles = FreeCells + 1
    /\ NumCells(obstacles) = FreeCells

====
